---- MODULE Spec2Model ----
(***************************************************************************)
(* Model of plugins/modules/porkbun_record.py: the PorkbunAPI client and   *)
(* main(), which reconciles one DNS record of a domain against a desired   *)
(* state (present with content/ttl, or absent).                            *)
(*                                                                         *)
(* One invocation of main() is a process p.  Its steps are the blocking    *)
(* HTTP requests it makes: the lookup (get_record), then at most one of    *)
(* create_record / update_record / delete_record followed by exit_json.    *)
(* The provider's record list of the domain is the shared variable remote. *)
(* A ttl string is a sequence of one-character strings, so that int() is   *)
(* a real parse ("0600" and "600" are different strings, equal integers).  *)
(***************************************************************************)
EXTENDS Integers, Sequences, FiniteSets, TLC

\* ------------------------------------------------------------------ bounds
\* Longest record list the provider holds initially.
MaxRecords == 2
\* Number of invocations of main(), run one after the other.
NumInvocations == 2

\* ------------------------------------------------------------------ inputs
Invocations == 1..NumInvocations

States == {"present", "absent"}
Domains == {"example.com"}
RecordTypes == {"A", "TXT"}
Names == {"", "www"}
Contents == {"192.0.2.1", "192.0.2.2"}
Ttls == {600, 3600}
ApiKeys == {"pk1_key"}
SecretApiKeys == {"sk1_secret"}

\* what the provider may already hold: one content, and the ttl strings "600"
\* and "0600"; the desired content and ttl vary around them
RemoteContents == {"192.0.2.1"}
RemoteTtls == {<<"6", "0", "0">>, <<"0", "6", "0", "0">>}

API_URL == "https://porkbun.com/api/json/v3/dns"

\* ------------------------------------------------------------------ helpers
\* record is None (get_record found nothing)
None == [type |-> "None"]

DigitChar(d) ==
    CASE d = 0 -> "0" [] d = 1 -> "1" [] d = 2 -> "2" [] d = 3 -> "3"
      [] d = 4 -> "4" [] d = 5 -> "5" [] d = 6 -> "6" [] d = 7 -> "7"
      [] d = 8 -> "8" [] d = 9 -> "9"

DigitVal(c) ==
    CASE c = "0" -> 0 [] c = "1" -> 1 [] c = "2" -> 2 [] c = "3" -> 3
      [] c = "4" -> 4 [] c = "5" -> 5 [] c = "6" -> 6 [] c = "7" -> 7
      [] c = "8" -> 8 [] c = "9" -> 9

\* int(record['ttl']): decimal parse of a digit string, leading zeros allowed
RECURSIVE PyInt(_)
PyInt(s) ==
    IF Len(s) = 0 THEN 0
    ELSE 10 * PyInt(SubSeq(s, 1, Len(s) - 1)) + DigitVal(s[Len(s)])

\* the provider's string encoding of a ttl it was sent as a JSON number
RECURSIVE TtlString(_)
TtlString(n) ==
    IF n < 10 THEN <<DigitChar(n)>>
    ELSE Append(TtlString(n \div 10), DigitChar(n % 10))


Last(s) == s[Len(s)]
Front(s) == SubSeq(s, 1, Len(s) - 1)

\* faulty variant: f'{name}.{domain}' also for the empty name
TargetRecordNameNoBare(name, domain) ==
    name \o "." \o domain

\* target_record_name = f'{name}.{domain}' if name else domain
TargetRecordName(name, domain) ==
    IF name # "" THEN name \o "." \o domain ELSE domain


\* faulty variant: the scan compares the name only
RECURSIVE FirstMatchByName(_, _, _)
FirstMatchByName(recs, record_type, target) ==
    IF recs = <<>> THEN None
    ELSE IF Head(recs).name = target
         THEN Head(recs)
         ELSE FirstMatchByName(Tail(recs), record_type, target)

\* faulty variant: the scan does not stop at the first match
RECURSIVE FirstMatchLast(_, _, _)
FirstMatchLast(recs, record_type, target) ==
    IF recs = <<>> THEN None
    ELSE IF Last(recs).type = record_type /\ Last(recs).name = target
         THEN Last(recs)
         ELSE FirstMatchLast(Front(recs), record_type, target)

\* the scan of get_record: first record of the list with the type and name
RECURSIVE FirstMatch(_, _, _)
FirstMatch(recs, record_type, target) ==
    IF recs = <<>> THEN None
    ELSE IF Head(recs).type = record_type /\ Head(recs).name = target
         THEN Head(recs)
         ELSE FirstMatch(Tail(recs), record_type, target)

\* ------------------------------------------------------------------ state
VARIABLES
    params,     \* module.params: the RecordSpec and the credentials
    check_mode, \* module.check_mode: the invocations run in check mode
    remote,     \* the provider's record list of the domain, in listing order
    nextId,     \* the provider's next fresh record id
    pc,         \* pc[p]: "start", "decide", "done" (exit_json) or "failed" (raised)
    records,    \* records[p]: the list get_records returned to get_record
    record,     \* record[p]: what get_record returned to main
    result,     \* result[p]: the exit_json arguments, NoResult before exit_json
    requests    \* requests[p]: the HTTP requests p issued, with their outcome

vars == <<params, check_mode, remote, nextId, pc, records, record, result, requests>>

\* result[p] before exit_json (and for ever, when main raised)
NoResult == [none |-> TRUE]

\* self.base_params
BaseParams == [apikey |-> params.api_key, secretapikey |-> params.secret_api_key]

\* what can come back from open_url + json.loads: a 200 answer with status
\* SUCCESS ("ok"); open_url raising, on a connection failure as on an HTTP
\* error status ("open_url_error"); a 200 answer whose JSON has no 'records'
\* (lookup only); a 200 answer whose JSON says status ERROR, which the client
\* returns to main like any other JSON
OpenUrlErrors == {"open_url_error"}
LookupOutcomes == {"ok", "no_records"} \cup OpenUrlErrors
MutationOutcomes == {"ok", "status_error"} \cup OpenUrlErrors

\* ------------------------------------------------------------------ provider
\* the provider lists a record under its fully-qualified name
ProviderName(name, domain) ==
    IF name = "" THEN domain ELSE name \o "." \o domain

RemoteNames == {ProviderName(n, d) : n \in Names, d \in Domains}

RemoteValues ==
    [type : RecordTypes, name : RemoteNames, content : RemoteContents,
     ttl : RemoteTtls]

WithId(v, i) ==
    [id |-> ToString(i), type |-> v.type, name |-> v.name,
     content |-> v.content, ttl |-> v.ttl]

\* the record lists the provider may hold when the first invocation starts
InitialRemotes ==
    UNION {{[i \in 1..n |-> WithId(f[i], i)] : f \in [1..n -> RemoteValues]} :
           n \in 0..MaxRecords}

\* POST /create/{domain}: a new record, with a fresh id, at the end of the list
ProviderCreate(recs, id, domain, record_type, name, content, ttl) ==
    Append(recs,
           [id |-> ToString(id), type |-> record_type,
            name |-> ProviderName(name, domain),
            content |-> content, ttl |-> TtlString(ttl)])

\* POST /editByNameType/{domain}/{type}/{name}: every record of that type and
\* name gets the content and ttl
ProviderEdit(recs, domain, record_type, name, content, ttl) ==
    [i \in 1..Len(recs) |->
        IF recs[i].type = record_type /\ recs[i].name = ProviderName(name, domain)
        THEN [recs[i] EXCEPT !.content = content, !.ttl = TtlString(ttl)]
        ELSE recs[i]]

\* POST /delete/{domain}/{record_id}: the record with that id is removed
ProviderDelete(recs, record_id) ==
    SelectSeq(recs, LAMBDA r : r.id # record_id)

\* ------------------------------------------------------------------ requests
\* self.headers
Headers == ("Content-Type" :> "application/json")

\* f'{self.API_URL}/...': the components of the path after API_URL, joined
RECURSIVE JoinPath(_)
JoinPath(parts) ==
    IF parts = <<>> THEN "" ELSE "/" \o Head(parts) \o JoinPath(Tail(parts))

\* open_url(url, method="POST", headers=self.headers, data=json.dumps(body)),
\* with what came back
Request(op, path, body, outcome) ==
    [op |-> op, path |-> path, url |-> API_URL \o JoinPath(path),
     headers |-> Headers, body |-> body, outcome |-> outcome]

\* faulty variant: the api key is sent in the URL
RetrieveRequestKeyInUrl(outcome) ==
    Request("retrieve", <<"retrieve", params.domain, params.api_key>>,
            BaseParams, outcome)

RetrieveRequest(outcome) ==
    Request("retrieve", <<"retrieve", params.domain>>, BaseParams, outcome)


\* faulty variant: the create body carries the fully-qualified name
CreateRequestFqdn(outcome) ==
    Request("create", <<"create", params.domain>>,
            [apikey |-> params.api_key, secretapikey |-> params.secret_api_key,
             type |-> params.record_type,
             name |-> TargetRecordName(params.name, params.domain),
             content |-> params.content, ttl |-> params.ttl],
            outcome)

CreateRequest(outcome) ==
    Request("create", <<"create", params.domain>>,
            [apikey |-> params.api_key, secretapikey |-> params.secret_api_key,
             type |-> params.record_type, name |-> params.name,
             content |-> params.content, ttl |-> params.ttl],
            outcome)

UpdateRequest(outcome) ==
    Request("editByNameType",
            <<"editByNameType", params.domain, params.record_type, params.name>>,
            [apikey |-> params.api_key, secretapikey |-> params.secret_api_key,
             content |-> params.content, ttl |-> params.ttl],
            outcome)


\* faulty variant: the delete is addressed by the record's name
DeleteRequestByName(record_id, outcome) ==
    Request("delete", <<"delete", params.domain, params.name>>, BaseParams, outcome)

DeleteRequest(record_id, outcome) ==
    Request("delete", <<"delete", params.domain, record_id>>, BaseParams, outcome)

\* ------------------------------------------------------------------ main

\* faulty variant: record['ttl'] != ttl, a string against an integer, which
\* Python finds unequal whatever they are
NeedsUpdateNoInt(rec, content, ttl) ==
    rec.content # content \/ TRUE

\* faulty variant: the ttl is not compared
NeedsUpdateContentOnly(rec, content, ttl) ==
    rec.content # content

\* faulty variant: record['ttl'] != str(ttl), a comparison of strings
NeedsUpdateStr(rec, content, ttl) ==
    rec.content # content \/ rec.ttl # TtlString(ttl)

\* elif record['content'] != content or int(record['ttl']) != ttl
NeedsUpdate(rec, content, ttl) ==
    rec.content # content \/ PyInt(rec.ttl) # ttl

\* the state when the first invocation starts, whatever the mode
InitMain ==
    /\ params \in [state : States, domain : Domains, record_type : RecordTypes,
                   name : Names, content : Contents, ttl : Ttls,
                   api_key : ApiKeys, secret_api_key : SecretApiKeys]
    /\ remote \in InitialRemotes
    /\ nextId = Len(remote) + 1
    /\ pc = [p \in Invocations |-> "start"]
    /\ records = [p \in Invocations |-> <<>>]
    /\ record = [p \in Invocations |-> None]
    /\ result = [p \in Invocations |-> NoResult]
    /\ requests = [p \in Invocations |-> <<>>]

\* a normal run
Init == InitMain /\ check_mode = FALSE

\* a run in check mode, which the module declares it supports
InitCheckMode == InitMain /\ check_mode = TRUE


\* faulty variant: result.get('records', []), an answer without 'records' is
\* taken for an empty list
GetRecordSwallow(p) ==
    /\ pc[p] = "start"
    /\ \E outcome \in LookupOutcomes :
        /\ requests' = [requests EXCEPT ![p] = Append(@, RetrieveRequest(outcome))]
        /\ IF outcome \in {"ok", "no_records"}
           THEN /\ records' = [records EXCEPT ![p] =
                      IF outcome = "ok" THEN remote ELSE <<>>]
                /\ record' = [record EXCEPT ![p] =
                      FirstMatch(records'[p], params.record_type,
                                 TargetRecordName(params.name, params.domain))]
                /\ pc' = [pc EXCEPT ![p] = "decide"]
           ELSE /\ UNCHANGED <<records, record>>
                /\ pc' = [pc EXCEPT ![p] = "failed"]
    /\ UNCHANGED <<params, check_mode, remote, nextId, result>>

\* record = porkbun.get_record(domain, record_type, name)
GetRecord(p) ==
    /\ pc[p] = "start"
    /\ \E outcome \in LookupOutcomes :
        /\ requests' = [requests EXCEPT ![p] = Append(@, RetrieveRequest(outcome))]
        /\ IF outcome = "ok"
           THEN /\ records' = [records EXCEPT ![p] = remote]
                /\ record' = [record EXCEPT ![p] =
                      FirstMatch(remote, params.record_type,
                                 TargetRecordName(params.name, params.domain))]
                /\ pc' = [pc EXCEPT ![p] = "decide"]
           ELSE /\ UNCHANGED <<records, record>>
                /\ pc' = [pc EXCEPT ![p] = "failed"]
    /\ UNCHANGED <<params, check_mode, remote, nextId, result>>


\* faulty variant: a request on which open_url raised is made again
FinishRetry(p, outcome, msg) ==
    IF outcome \in OpenUrlErrors
    THEN UNCHANGED <<pc, result>>
    ELSE /\ pc' = [pc EXCEPT ![p] = "done"]
         /\ result' = [result EXCEPT ![p] = [changed |-> TRUE, msg |-> msg]]

\* a mutating request came back: open_url raised, or main goes on to exit_json
\* whatever the JSON of the answer says
Finish(p, outcome, msg) ==
    IF outcome \in OpenUrlErrors
    THEN /\ pc' = [pc EXCEPT ![p] = "failed"]
         /\ result' = result
    ELSE /\ pc' = [pc EXCEPT ![p] = "done"]
         /\ result' = [result EXCEPT ![p] = [changed |-> TRUE, msg |-> msg]]

\* faulty variant: the record is looked up once more before it is created, and
\* left alone when it is there by then
CreateRecordRecheck(p) ==
    /\ pc[p] = "decide"
    /\ params.state = "present"
    /\ record[p] = None
    /\ IF FirstMatch(remote, params.record_type,
                     TargetRecordName(params.name, params.domain)) = None
       THEN \E outcome \in MutationOutcomes :
            /\ requests' = [requests EXCEPT ![p] =
                   Append(Append(@, RetrieveRequest("ok")), CreateRequest(outcome))]
            /\ IF outcome = "ok"
               THEN /\ remote' = ProviderCreate(remote, nextId, params.domain,
                                     params.record_type, params.name,
                                     params.content, params.ttl)
                    /\ nextId' = nextId + 1
               ELSE UNCHANGED <<remote, nextId>>
            /\ Finish(p, outcome, "DNS record created")
       ELSE /\ requests' = [requests EXCEPT ![p] = Append(@, RetrieveRequest("ok"))]
            /\ pc' = [pc EXCEPT ![p] = "done"]
            /\ result' = [result EXCEPT ![p] =
                   [changed |-> FALSE, msg |-> "DNS record already exists"]]
            /\ UNCHANGED <<remote, nextId>>
    /\ UNCHANGED <<params, check_mode, records, record>>

\* state == 'present' and record is None
CreateRecord(p) ==
    /\ pc[p] = "decide"
    /\ params.state = "present"
    /\ record[p] = None
    /\ \E outcome \in MutationOutcomes :
        /\ requests' = [requests EXCEPT ![p] = Append(@, CreateRequest(outcome))]
        /\ IF outcome = "ok"
           THEN /\ remote' = ProviderCreate(remote, nextId, params.domain,
                                 params.record_type, params.name,
                                 params.content, params.ttl)
                /\ nextId' = nextId + 1
           ELSE UNCHANGED <<remote, nextId>>
        /\ Finish(p, outcome, "DNS record created")
    /\ UNCHANGED <<params, check_mode, records, record>>

\* state == 'present' and the record differs in content or ttl
UpdateRecord(p) ==
    /\ pc[p] = "decide"
    /\ params.state = "present"
    /\ record[p] # None
    /\ NeedsUpdate(record[p], params.content, params.ttl)
    /\ \E outcome \in MutationOutcomes :
        /\ requests' = [requests EXCEPT ![p] = Append(@, UpdateRequest(outcome))]
        /\ remote' = IF outcome = "ok"
                     THEN ProviderEdit(remote, params.domain, params.record_type,
                                       params.name, params.content, params.ttl)
                     ELSE remote
        /\ Finish(p, outcome, "DNS record updated")
    /\ UNCHANGED <<params, check_mode, nextId, records, record>>

\* state == 'present' and the record has the content and the ttl
AlreadyExists(p) ==
    /\ pc[p] = "decide"
    /\ params.state = "present"
    /\ record[p] # None
    /\ ~NeedsUpdate(record[p], params.content, params.ttl)
    /\ pc' = [pc EXCEPT ![p] = "done"]
    /\ result' = [result EXCEPT ![p] =
                     [changed |-> FALSE, msg |-> "DNS record already exists"]]
    /\ UNCHANGED <<params, check_mode, remote, nextId, records, record, requests>>

\* state == 'absent' and record is None
DoesNotExist(p) ==
    /\ pc[p] = "decide"
    /\ params.state # "present"
    /\ record[p] = None
    /\ pc' = [pc EXCEPT ![p] = "done"]
    /\ result' = [result EXCEPT ![p] =
                     [changed |-> FALSE, msg |-> "DNS record does not exist"]]
    /\ UNCHANGED <<params, check_mode, remote, nextId, records, record, requests>>

\* state == 'absent' and the record exists
DeleteRecord(p) ==
    /\ pc[p] = "decide"
    /\ params.state # "present"
    /\ record[p] # None
    /\ \E outcome \in MutationOutcomes :
        /\ requests' = [requests EXCEPT ![p] =
                           Append(@, DeleteRequest(record[p].id, outcome))]
        /\ remote' = IF outcome = "ok"
                     THEN ProviderDelete(remote, record[p].id)
                     ELSE remote
        /\ Finish(p, outcome, "DNS record deleted")
    /\ UNCHANGED <<params, check_mode, nextId, records, record>>

Ended(p) == pc[p] \in {"done", "failed"}

\* invocations in succession: p starts when the one before it has ended
InTurn(p) == \A q \in Invocations : q < p => Ended(q)

\* main() from the lookup to exit_json, one blocking request at a time

Next ==
    \/ \E p \in Invocations : InTurn(p) /\ GetRecord(p)
    \/ \E p \in Invocations : InTurn(p) /\ CreateRecord(p)
    \/ \E p \in Invocations : InTurn(p) /\ UpdateRecord(p)
    \/ \E p \in Invocations : InTurn(p) /\ AlreadyExists(p)
    \/ \E p \in Invocations : InTurn(p) /\ DoesNotExist(p)
    \/ \E p \in Invocations : InTurn(p) /\ DeleteRecord(p)

Spec == Init /\ [][Next]_vars

\* the same invocations, in check mode
SpecCheckMode == InitCheckMode /\ [][Next]_vars

\* ------------------------------------------------------------------ other writers
\* Another writer of the domain acts between the lookup of the first invocation
\* and its mutating call, while the list that lookup returned is still the
\* provider's; the later invocations meet what it wrote.
WriterMayAct ==
    /\ \A q \in Invocations : ~Ended(q)
    /\ \E p \in Invocations : pc[p] = "decide" /\ records[p] = remote

\* it creates a record of the desired type and name, ...
ExternalCreate ==
    /\ WriterMayAct
    /\ \E content \in Contents, ttl \in Ttls :
        remote' = ProviderCreate(remote, nextId, params.domain, params.record_type,
                                 params.name, content, ttl)
    /\ nextId' = nextId + 1
    /\ UNCHANGED <<params, check_mode, pc, records, record, result, requests>>

\* ... changes the records of that type and name, ...
ExternalEdit ==
    /\ WriterMayAct
    /\ \E content \in Contents, ttl \in Ttls :
        remote' = ProviderEdit(remote, params.domain, params.record_type,
                               params.name, content, ttl)
    /\ remote' # remote
    /\ UNCHANGED <<params, check_mode, nextId, pc, records, record, result, requests>>

\* ... or deletes one of them.
ExternalDelete ==
    /\ WriterMayAct
    /\ \E i \in 1..Len(remote) :
        /\ remote[i].type = params.record_type
        /\ remote[i].name = ProviderName(params.name, params.domain)
        /\ remote' = ProviderDelete(remote, remote[i].id)
    /\ UNCHANGED <<params, check_mode, nextId, pc, records, record, result, requests>>

\* invocations one after the other, and other writers acting between the
\* lookup and the mutating call of each
NextWriter ==
    \/ \E p \in Invocations : InTurn(p) /\ GetRecord(p)
    \/ \E p \in Invocations : InTurn(p) /\ CreateRecord(p)
    \/ \E p \in Invocations : InTurn(p) /\ UpdateRecord(p)
    \/ \E p \in Invocations : InTurn(p) /\ AlreadyExists(p)
    \/ \E p \in Invocations : InTurn(p) /\ DoesNotExist(p)
    \/ \E p \in Invocations : InTurn(p) /\ DeleteRecord(p)
    \/ ExternalCreate
    \/ ExternalEdit
    \/ ExternalDelete

\* other writers are explored from the record lists shorter than MaxRecords
InitWriter == Init /\ Len(remote) < MaxRecords

SpecWriter == InitWriter /\ [][NextWriter]_vars

\* ------------------------------------------------------------------ concurrent runs
\* invocations with desired_state=present whose requests interleave in any
\* order
NextConcurrent ==
    \/ \E p \in Invocations : GetRecord(p)
    \/ \E p \in Invocations : CreateRecord(p)
    \/ \E p \in Invocations : UpdateRecord(p)
    \/ \E p \in Invocations : AlreadyExists(p)

\* interleavings are explored from the record lists shorter than MaxRecords
InitConcurrent ==
    Init /\ params.state = "present" /\ Len(remote) < MaxRecords

SpecConcurrent == InitConcurrent /\ [][NextConcurrent]_vars

\* ------------------------------------------------------------------ properties
\* The fully-qualified name the specification gives the desired record.
SpecName ==
    IF params.name = "" THEN params.domain
    ELSE params.name \o "." \o params.domain

\* the positions in a record list of the records with the desired type and name
MatchIdx(recs) ==
    {i \in 1..Len(recs) : recs[i].type = params.record_type /\ recs[i].name = SpecName}

Found(p) == MatchIdx(records[p]) # {}

\* the first record in list order with the desired type and name
FirstFound(p) ==
    records[p][CHOOSE i \in MatchIdx(records[p]) : \A j \in MatchIdx(records[p]) : i <= j]

\* the integer a decimal digit string denotes, most significant digit first
RECURSIVE Pow10(_)
Pow10(n) == IF n = 0 THEN 1 ELSE 10 * Pow10(n - 1)

RECURSIVE DecimalValue(_)
DecimalValue(s) ==
    IF s = <<>> THEN 0
    ELSE DigitVal(Head(s)) * Pow10(Len(s) - 1) + DecimalValue(Tail(s))

MutatingOps == {"create", "editByNameType", "delete"}

\* the requests of p after its lookup
AfterLookup(p) == SubSeq(requests[p], 2, Len(requests[p]))

\* p's lookup returned a record list
LookedUp(p) ==
    /\ Len(requests[p]) >= 1
    /\ requests[p][1].op = "retrieve"
    /\ requests[p][1].outcome = "ok"

\* p looked up and has taken its decision
Decided(p) == LookedUp(p) /\ Ended(p)

\* C2: desired_state=present and the lookup finds no record of the type and
\* fully-qualified name: exactly one create call with the spec's type, name,
\* content and ttl, no update or delete call, and, when main returns,
\* changed=true with "DNS record created".
C2_CreateWhenAbsent ==
    \A p \in Invocations :
        (Decided(p) /\ params.state = "present" /\ ~Found(p)) =>
            /\ Len(AfterLookup(p)) = 1
            /\ AfterLookup(p)[1].op = "create"
            /\ AfterLookup(p)[1].url = API_URL \o "/create/" \o params.domain
            /\ AfterLookup(p)[1].body.type = params.record_type
            /\ AfterLookup(p)[1].body.name = params.name
            /\ AfterLookup(p)[1].body.content = params.content
            /\ AfterLookup(p)[1].body.ttl = params.ttl
            /\ pc[p] = "done" =>
                   result[p] = [changed |-> TRUE, msg |-> "DNS record created"]

C2_Witness ==
    \E p \in Invocations :
        /\ pc[p] = "done" /\ LookedUp(p) /\ params.state = "present"
        /\ ~Found(p) /\ Len(records[p]) > 0
        /\ result[p].msg = "DNS record created"

\* C3: desired_state=present and the first matching record has the desired
\* content and a ttl integer-equal to the desired ttl: no create, update or
\* delete call, changed=false with "DNS record already exists".
C3_NoChangeWhenEqual ==
    \A p \in Invocations :
        (Decided(p) /\ params.state = "present" /\ Found(p)
            /\ FirstFound(p).content = params.content
            /\ DecimalValue(FirstFound(p).ttl) = params.ttl) =>
            /\ AfterLookup(p) = <<>>
            /\ pc[p] = "done"
            /\ result[p] = [changed |-> FALSE, msg |-> "DNS record already exists"]

C3_Witness ==
    \E p \in Invocations :
        /\ pc[p] = "done" /\ LookedUp(p) /\ params.state = "present" /\ Found(p)
        /\ FirstFound(p).content = params.content
        /\ DecimalValue(FirstFound(p).ttl) = params.ttl
        /\ result[p].changed = FALSE

\* C4: desired_state=present and the first matching record differs in content
\* only or in ttl only: exactly one update call addressed by (domain,
\* record_type, name) with the desired content and ttl, no create or delete
\* call, and, when main returns, changed=true with "DNS record updated".
C4_UpdateWhenDifferent ==
    \A p \in Invocations :
        (Decided(p) /\ params.state = "present" /\ Found(p)
            /\ \/ /\ FirstFound(p).content # params.content
                  /\ DecimalValue(FirstFound(p).ttl) = params.ttl
               \/ /\ FirstFound(p).content = params.content
                  /\ DecimalValue(FirstFound(p).ttl) # params.ttl) =>
            /\ Len(AfterLookup(p)) = 1
            /\ AfterLookup(p)[1].op = "editByNameType"
            /\ AfterLookup(p)[1].url =
                   API_URL \o "/editByNameType/" \o params.domain \o "/"
                       \o params.record_type \o "/" \o params.name
            /\ AfterLookup(p)[1].body.content = params.content
            /\ AfterLookup(p)[1].body.ttl = params.ttl
            /\ pc[p] = "done" =>
                   result[p] = [changed |-> TRUE, msg |-> "DNS record updated"]

\* an update for a ttl that differs while the content is the same
C4_Witness ==
    \E p \in Invocations :
        /\ pc[p] = "done" /\ LookedUp(p) /\ params.state = "present" /\ Found(p)
        /\ FirstFound(p).content = params.content
        /\ DecimalValue(FirstFound(p).ttl) # params.ttl
        /\ result[p].msg = "DNS record updated"

\* C5: desired_state=absent and the lookup finds a matching record: exactly
\* one delete call, for the id of the record the lookup returned, no create or
\* update call, and, when main returns, changed=true with "DNS record deleted".
C5_DeleteWhenFound ==
    \A p \in Invocations :
        (Decided(p) /\ params.state = "absent" /\ Found(p)) =>
            /\ Len(AfterLookup(p)) = 1
            /\ AfterLookup(p)[1].op = "delete"
            /\ AfterLookup(p)[1].url =
                   API_URL \o "/delete/" \o params.domain \o "/" \o FirstFound(p).id
            /\ pc[p] = "done" =>
                   result[p] = [changed |-> TRUE, msg |-> "DNS record deleted"]

\* a delete of a record that is not the first of the list
C5_Witness ==
    \E p \in Invocations :
        /\ pc[p] = "done" /\ LookedUp(p) /\ params.state = "absent" /\ Found(p)
        /\ 1 \notin MatchIdx(records[p])
        /\ result[p].msg = "DNS record deleted"

\* C6: desired_state=absent and the lookup finds no matching record: no
\* create, update or delete call, changed=false with "DNS record does not
\* exist".
C6_NoChangeWhenAbsent ==
    \A p \in Invocations :
        (Decided(p) /\ params.state = "absent" /\ ~Found(p)) =>
            /\ AfterLookup(p) = <<>>
            /\ pc[p] = "done"
            /\ result[p] = [changed |-> FALSE, msg |-> "DNS record does not exist"]

C6_Witness ==
    \E p \in Invocations :
        /\ pc[p] = "done" /\ LookedUp(p) /\ params.state = "absent"
        /\ ~Found(p) /\ Len(records[p]) > 0
        /\ result[p].changed = FALSE

\* C7: within one invocation the lookup is the first request and has returned
\* its list before any mutating request; a mutating request is the last
\* request of the invocation, so there is at most one and none follows it.
C7_LookupThenOneMutation ==
    \A p \in Invocations :
        /\ requests[p] # <<>> => requests[p][1].op = "retrieve"
        /\ \A i \in 1..Len(requests[p]) :
              requests[p][i].op \in MutatingOps =>
                  /\ i = 2
                  /\ i = Len(requests[p])
                  /\ LookedUp(p)
                  /\ Ended(p)
        /\ Cardinality({i \in 1..Len(requests[p]) :
                           requests[p][i].op \in MutatingOps}) <= 1

\* two invocations have each made their lookup and then one mutating request
C7_Witness ==
    \A p \in Invocations :
        /\ Ended(p)
        /\ Len(requests[p]) = 2
        /\ requests[p][2].op \in MutatingOps

\* C8: a failed API Client call aborts the reconciliation.  A failed lookup
\* (open_url raised, or the answer has no 'records') is the only request, with
\* no result; a mutating call on which open_url raised is the last request,
\* with no result.
C8_FailureAborts ==
    \A p \in Invocations :
        /\ (requests[p] # <<>> /\ requests[p][1].outcome # "ok") =>
              /\ Len(requests[p]) = 1
              /\ pc[p] = "failed"
              /\ result[p] = NoResult
        /\ \A i \in 1..Len(requests[p]) :
              (requests[p][i].op \in MutatingOps
                  /\ requests[p][i].outcome \in OpenUrlErrors) =>
                  /\ i = Len(requests[p])
                  /\ pc[p] = "failed"
                  /\ result[p] = NoResult

\* one invocation failed in its lookup on a missing 'records', the next in its
\* mutating call
C8_Witness ==
    \E p, q \in Invocations :
        /\ pc[p] = "failed" /\ Len(requests[p]) = 1
        /\ requests[p][1].outcome = "no_records"
        /\ pc[q] = "failed" /\ Len(requests[q]) = 2
        /\ requests[q][2].outcome = "open_url_error"

\* C9: a create, update or delete call that the provider answers with a
\* non-success status (an HTTP error status, on which open_url raises, or a
\* JSON answer saying status ERROR) ends the invocation with an error and
\* without a result.
C9_NonSuccessIsError ==
    \A p \in Invocations :
        \A i \in 1..Len(requests[p]) :
            (requests[p][i].op \in MutatingOps
                /\ requests[p][i].outcome \in OpenUrlErrors \cup {"status_error"}) =>
                /\ pc[p] = "failed"
                /\ result[p] = NoResult

\* C10: the ttl comparison is numeric.  With a matching record of the desired
\* content, an update is issued exactly when the integer value of the remote
\* ttl string differs from the desired ttl; "600" and "0600" against 600 give
\* no request and changed=false.
C10_NumericTtl ==
    \A p \in Invocations :
        (Decided(p) /\ params.state = "present" /\ Found(p)
            /\ FirstFound(p).content = params.content) =>
            /\ (\E i \in 1..Len(AfterLookup(p)) :
                   AfterLookup(p)[i].op = "editByNameType")
                 <=> DecimalValue(FirstFound(p).ttl) # params.ttl
            /\ (params.ttl = 600
                  /\ FirstFound(p).ttl \in {<<"6", "0", "0">>, <<"0", "6", "0", "0">>}) =>
                  /\ AfterLookup(p) = <<>>
                  /\ pc[p] = "done"
                  /\ result[p].changed = FALSE

\* the remote ttl is "0600", the desired ttl 600
C10_Witness ==
    \E p \in Invocations :
        /\ pc[p] = "done" /\ LookedUp(p) /\ params.state = "present" /\ Found(p)
        /\ FirstFound(p).content = params.content
        /\ FirstFound(p).ttl = <<"0", "6", "0", "0">>
        /\ params.ttl = 600
        /\ result[p].changed = FALSE

\* every request of p was answered with success
AllSucceeded(p) ==
    \A i \in 1..Len(requests[p]) : requests[p][i].outcome = "ok"

\* the record list p looked up does not yet have the desired state
ChangeNeeded(p) ==
    IF params.state = "present"
    THEN \/ ~Found(p)
         \/ FirstFound(p).content # params.content
         \/ DecimalValue(FirstFound(p).ttl) # params.ttl
    ELSE Found(p)

\* p and the invocation after it both returned, all their calls succeeding
TwiceInSuccession(p) ==
    /\ p + 1 \in Invocations
    /\ pc[p] = "done" /\ AllSucceeded(p)
    /\ pc[p + 1] = "done" /\ AllSucceeded(p + 1)

\* the second of two invocations reports no change and mutates nothing, the
\* first reports a change exactly when one was needed
SecondIsNoOp(p) ==
    /\ result[p + 1].changed = FALSE
    /\ AfterLookup(p + 1) = <<>>
    /\ result[p].changed = ChangeNeeded(p)

\* C1 as stated: idempotence for every RecordSpec and every remote record
\* list, for desired_state=present and for desired_state=absent.
C1_Idempotent ==
    \A p \in Invocations : TwiceInSuccession(p) => SecondIsNoOp(p)

\* C1, amended: idempotence for desired_state=present and every remote record
\* list, and for desired_state=absent when the list the first invocation
\* looks up holds at most one record of the type and fully-qualified name.
C1_IdempotentUnlessDuplicates ==
    \A p \in Invocations :
        (TwiceInSuccession(p)
            /\ (params.state = "absent" => Cardinality(MatchIdx(records[p])) <= 1)) =>
            SecondIsNoOp(p)

\* a delete of the only matching record, then a run that finds nothing to do
C1_Witness ==
    \E p \in Invocations :
        /\ TwiceInSuccession(p)
        /\ params.state = "absent"
        /\ Cardinality(MatchIdx(records[p])) = 1
        /\ result[p].changed = TRUE
        /\ result[p + 1].changed = FALSE

\* p returned with every call succeeding, and no later invocation has yet
\* made a mutating call
JustReconciled(p) ==
    /\ pc[p] = "done"
    /\ AllSucceeded(p)
    /\ \A q \in Invocations : q > p => pc[q] \in {"start", "decide"}

\* the remote list has the desired state
Converged ==
    IF params.state = "present"
    THEN \E i \in MatchIdx(remote) :
            /\ remote[i].content = params.content
            /\ DecimalValue(remote[i].ttl) = params.ttl
    ELSE MatchIdx(remote) = {}

\* C11 as stated: after one invocation whose calls all succeed, and no other
\* writer, the remote list has the desired state, for every RecordSpec and
\* every initial remote record list.
C11_Converges ==
    \A p \in Invocations : JustReconciled(p) => Converged

\* C11, amended: the same for desired_state=present and every remote record
\* list, and for desired_state=absent when the list the invocation looks up
\* holds at most one record of the type and fully-qualified name.
C11_ConvergesUnlessDuplicates ==
    \A p \in Invocations :
        (JustReconciled(p)
            /\ (params.state = "absent" => Cardinality(MatchIdx(records[p])) <= 1)) =>
            Converged

\* an update of the ttl of the matching record has brought the desired state
C11_Witness ==
    \E p \in Invocations :
        /\ JustReconciled(p)
        /\ params.state = "present"
        /\ Found(p)
        /\ DecimalValue(FirstFound(p).ttl) # params.ttl
        /\ result[p].msg = "DNS record updated"
        /\ Converged

\* C12: get_record returns the first record, in list order, of the list the
\* provider returned whose type is record_type and whose name is
\* "<name>.<domain>" (the bare domain for the empty name), and None exactly
\* when the list has no such record.
C12_FirstMatchWins ==
    \A p \in Invocations :
        LookedUp(p) =>
            /\ Found(p) => record[p] = FirstFound(p)
            /\ ~Found(p) <=> record[p] = None

\* two records of the list match, and the first was returned
C12_Witness ==
    \E p \in Invocations :
        /\ LookedUp(p)
        /\ Cardinality(MatchIdx(records[p])) = 2
        /\ records[p][1] # records[p][2]
        /\ record[p] = records[p][1]

\* a record list with at most one record per (type, fully-qualified name)
Unique(recs) ==
    \A i, j \in 1..Len(recs) :
        (recs[i].type = recs[j].type /\ recs[i].name = recs[j].name) => i = j

\* the invocations that make their mutating call, or return, in this step do so
\* while the provider's list is still the list their lookup returned
SnapshotCurrent ==
    \A p \in Invocations :
        (pc[p] = "decide" /\ pc'[p] # "decide") => records[p] = remote

\* C13 as stated: invocations with desired_state=present on one RecordSpec,
\* their lookups and mutating calls interleaved in any order, never bring a
\* second record of a type and fully-qualified name into a remote list that
\* has at most one of each.
C13_NoDuplicateCreation ==
    [][Unique(remote) => Unique(remote')]_vars

\* C13, amended: they never do so by a mutating call made while the remote
\* list is still the one the invocation's lookup returned, that is when no
\* other invocation's mutating call falls between the lookup and the call.
C13_NoDuplicateWhenSnapshotCurrent ==
    [][(Unique(remote) /\ SnapshotCurrent) => Unique(remote')]_vars

\* one invocation created the record, the next found it and left it alone
C13_Witness ==
    \E p, q \in Invocations :
        /\ pc[p] = "done" /\ AllSucceeded(p)
        /\ result[p].msg = "DNS record created"
        /\ pc[q] = "done"
        /\ result[q].msg = "DNS record already exists"
        /\ Cardinality(MatchIdx(remote)) = 1
        /\ Unique(remote)

\* the two secrets of the invocation
Credentials == {params.api_key, params.secret_api_key}

\* C14: every request carries api_key and secret_api_key in its JSON body, and
\* neither is a component of a request URL, a header name or value, or the
\* message of the result.
C14_CredentialsOnlyInBody ==
    \A p \in Invocations :
        /\ \A i \in 1..Len(requests[p]) :
              /\ {"apikey", "secretapikey"} \subseteq DOMAIN requests[p][i].body
              /\ requests[p][i].body.apikey = params.api_key
              /\ requests[p][i].body.secretapikey = params.secret_api_key
              /\ \A k \in 1..Len(requests[p][i].path) :
                    requests[p][i].path[k] \notin Credentials
              /\ requests[p][i].url \notin Credentials
              /\ \A h \in DOMAIN requests[p][i].headers :
                    /\ h \notin Credentials
                    /\ requests[p][i].headers[h] \notin Credentials
        /\ pc[p] = "done" =>
              /\ DOMAIN result[p] = {"changed", "msg"}
              /\ result[p].msg \notin Credentials

\* an invocation made its lookup and a delete, and returned its result
C14_Witness ==
    \E p \in Invocations :
        /\ pc[p] = "done"
        /\ Len(requests[p]) = 2
        /\ requests[p][1].op = "retrieve"
        /\ requests[p][2].op = "delete"
        /\ result[p].msg = "DNS record deleted"

\* the mutating call the decision table assigns to desired_state and the list
\* p looked up ("none" for no call), and the result it assigns
TableCall(p) ==
    IF params.state = "present"
    THEN IF ~Found(p) THEN "create"
         ELSE IF \/ FirstFound(p).content # params.content
                 \/ DecimalValue(FirstFound(p).ttl) # params.ttl
              THEN "editByNameType"
              ELSE "none"
    ELSE IF Found(p) THEN "delete" ELSE "none"

TableResult(p) ==
    CASE TableCall(p) = "create" ->
            [changed |-> TRUE, msg |-> "DNS record created"]
      [] TableCall(p) = "editByNameType" ->
            [changed |-> TRUE, msg |-> "DNS record updated"]
      [] TableCall(p) = "delete" ->
            [changed |-> TRUE, msg |-> "DNS record deleted"]
      [] TableCall(p) = "none" /\ params.state = "present" ->
            [changed |-> FALSE, msg |-> "DNS record already exists"]
      [] OTHER ->
            [changed |-> FALSE, msg |-> "DNS record does not exist"]

\* C15: whatever another writer does to the matching record between the
\* lookup and the mutation, the invocation makes the call the decision table
\* assigns to desired_state and the list its one lookup returned (a delete by
\* the looked-up id), no second lookup, and reports the table's result.
C15_DecidedFromSnapshot ==
    \A p \in Invocations :
        Decided(p) =>
            /\ IF TableCall(p) = "none"
               THEN AfterLookup(p) = <<>>
               ELSE /\ Len(AfterLookup(p)) = 1
                    /\ AfterLookup(p)[1].op = TableCall(p)
                    /\ TableCall(p) = "delete" =>
                          AfterLookup(p)[1].path = <<"delete", params.domain, FirstFound(p).id>>
                    /\ TableCall(p) = "editByNameType" =>
                          AfterLookup(p)[1].path =
                              <<"editByNameType", params.domain,
                                params.record_type, params.name>>
            /\ pc[p] = "done" => result[p] = TableResult(p)

\* the lookup found no record, another writer then created it, and the
\* invocation created it again
C15_Witness ==
    \E p \in Invocations :
        /\ pc[p] = "done" /\ AllSucceeded(p)
        /\ params.state = "present" /\ LookedUp(p) /\ ~Found(p)
        /\ result[p].msg = "DNS record created"
        /\ Len(remote) = Len(records[p]) + 2
        /\ Cardinality(MatchIdx(remote)) = 2

\* C16: in check mode no create, update or delete call is issued and the remote
\* record list is left as it is.
C16_CheckModeMutatesNothing ==
    [][check_mode =>
          /\ remote' = remote
          /\ \A p \in Invocations :
                \A i \in 1..Len(requests'[p]) :
                    requests'[p][i].op \notin MutatingOps]_vars

\* the records of a list that are not of the desired type and name
Others(recs) ==
    {recs[i] : i \in {j \in 1..Len(recs) :
                        recs[j].type # params.record_type \/ recs[j].name # SpecName}}

\* C17: whichever of lookup, create, update, delete or no-op an invocation
\* performs, and whether or not the call succeeds, every remote record whose
\* type or fully-qualified name is not the spec's stays, with its id, content
\* and ttl, and no such record appears.
C17_OtherRecordsUntouched ==
    [][Others(remote') = Others(remote)]_vars

\* a delete went through next to a record of another type or name
C17_Witness ==
    \E p \in Invocations :
        /\ pc[p] = "done" /\ AllSucceeded(p)
        /\ result[p].msg = "DNS record deleted"
        /\ Others(records[p]) # {}
        /\ Others(remote) = Others(records[p])
        /\ Len(remote) = Len(records[p]) - 1

====
